---- MODULE Spec2Model ----
(***************************************************************************)
(* Model of src/browser/sum.js: sumPrecise, Shewchuk's exact floating      *)
(* point summation with an overflow counter (the tc39 Math.sumPrecise      *)
(* polyfill).                                                              *)
(*                                                                         *)
(* The floating point format is binary64 scaled down: Prec significand     *)
(* bits instead of 53 and quantum exponents 0..EMax instead of 0..2045.    *)
(* A finite number is an integer count of the smallest subnormal, so       *)
(* every sum below is computed exactly and then rounded once by the        *)
(* format's round-to-nearest, ties-to-even rule, as the JavaScript         *)
(* operators +, -, * and / do.  Signed zeros, the infinities and NaN are   *)
(* kept.  The format keeps the one relation between its two parameters     *)
(* that the finalization relies on and binary64 has (2045 >= 53 + 1):      *)
(* EMax >= Prec + 1, so that every number of magnitude above MAX_ULP / 2   *)
(* is halved exactly by "next / 2".                                        *)
(*                                                                         *)
(* Values that the code names once and reads several times are passed as   *)
(* operator parameters here (ForTwoSum, ForOverflow, ...), one operator    *)
(* per stretch of the code.                                                *)
(***************************************************************************)
EXTENDS Integers, Sequences, FiniteSets, TLC

\* ------------------------------------------------------------- bounds
\* significand bits of the scaled-down format (53 in binary64)
Prec == 2
\* largest quantum exponent of the format (2045 in binary64, counting from
\* the smallest subnormal): MAX_ULP is 2^EMax smallest subnormals
EMax == 3
\* longest input array of the specification Spec
MaxLen == 3
\* largest magnitude of the overflow counter explored by AccSpec
MaxOverflow == 4

\* ------------------------------------------------- the number format
Pow2(k) == 2 ^ k

\* 2**1024 in units of the smallest subnormal: the first magnitude that is
\* no longer finite
TwoTop == Pow2(Prec + EMax)

Fin(i) == [cls |-> "fin", neg |-> i < 0, mag |-> IF i < 0 THEN -i ELSE i]
Zero == [cls |-> "fin", neg |-> FALSE, mag |-> 0]
NegZero == [cls |-> "fin", neg |-> TRUE, mag |-> 0]
INF == [cls |-> "inf", neg |-> FALSE, mag |-> 0]
NegINF == [cls |-> "inf", neg |-> TRUE, mag |-> 0]
NaN == [cls |-> "nan", neg |-> FALSE, mag |-> 0]

IsNaN(a) == a.cls = "nan"
IsInf(a) == a.cls = "inf"
IsFin(a) == a.cls = "fin"

\* the exact value of a finite number
Val(a) == IF a.neg THEN -a.mag ELSE a.mag

\* the magnitude of an integer
Mag(i) == IF i < 0 THEN -i ELSE i

\* the quantum exponent of the binade that holds h/2, h >= 0
QuantumExp(h) ==
  CHOOSE k \in 0..EMax :
    /\ (h < 2 * Pow2(Prec + k) \/ k = EMax)
    /\ \A m \in 0..(k - 1) : h >= 2 * Pow2(Prec + m)

\* h/2 rounded to nearest, ties to even, to a multiple of the quantum q2/2
RoundQuantum(h, q2) ==
  LET r  == h % q2
      fl == (h - r) \div 2
      q  == q2 \div 2
  IN IF (2 * r > q2) \/ (2 * r = q2 /\ (fl \div q) % 2 = 1)
       THEN fl + q
       ELSE fl

\* h/2 (h a natural number of half units) rounded to nearest, ties to even,
\* to a multiple of its binade's quantum
RoundHalves(h) == RoundQuantum(h, 2 * Pow2(QuantumExp(h)))

\* the number of sign neg and magnitude m, an infinity from 2**1024 on
Overflowed(neg, m) ==
  IF m >= TwoTop
    THEN [cls |-> "inf", neg |-> neg, mag |-> 0]
    ELSE [cls |-> "fin", neg |-> neg, mag |-> m]

\* the number nearest to (-1)^neg * h/2
RoundTo(neg, h) == Overflowed(neg, RoundHalves(h))

\* unary minus
FNeg(a) == IF IsNaN(a) THEN NaN ELSE [a EXCEPT !.neg = ~a.neg]

\* a + b
FAdd(a, b) ==
  IF IsNaN(a) \/ IsNaN(b) THEN NaN
  ELSE IF IsInf(a) /\ IsInf(b) THEN (IF a.neg = b.neg THEN a ELSE NaN)
  ELSE IF IsInf(a) THEN a
  ELSE IF IsInf(b) THEN b
  ELSE IF Val(a) + Val(b) = 0
    THEN (IF a.mag = 0 /\ a.neg /\ b.neg THEN NegZero ELSE Zero)
    ELSE RoundTo(Val(a) + Val(b) < 0, 2 * Mag(Val(a) + Val(b)))

\* a - b
FSub(a, b) == FAdd(a, FNeg(b))

\* i * a for an integer valued i
FMulInt(i, a) ==
  IF IsNaN(a) THEN NaN
  ELSE IF IsInf(a)
    THEN (IF i = 0 THEN NaN ELSE [a EXCEPT !.neg = (a.neg # (i < 0))])
  ELSE RoundTo(a.neg # (i < 0), 2 * Mag(i) * a.mag)

\* a / 2
FHalf(a) == IF IsFin(a) THEN RoundTo(a.neg, a.mag) ELSE a

\* Math.abs
abs(a) == IF IsNaN(a) THEN NaN ELSE [a EXCEPT !.neg = FALSE]

\* the position of a number on the extended real line
Key(a) == IF IsInf(a) THEN (IF a.neg THEN -TwoTop ELSE TwoTop) ELSE Val(a)

\* a < b, a > b, a === b, a !== b
FLt(a, b) == ~IsNaN(a) /\ ~IsNaN(b) /\ Key(a) < Key(b)
FGt(a, b) == FLt(b, a)
FEq(a, b) == ~IsNaN(a) /\ ~IsNaN(b) /\ Key(a) = Key(b)
FNe(a, b) == ~FEq(a, b)

\* the finite magnitudes of the format
Magnitudes == {m \in 0..(TwoTop - 1) : RoundHalves(2 * m) = m}

\* the numbers sumPrecise accepts: finite, not NaN, not -0
ValidDoubles == {Fin(m) : m \in Magnitudes} \cup {Fin(-m) : m \in Magnitudes}

\* ------------------------------------------------ the code's constants
MAX_DOUBLE == Fin(TwoTop - Pow2(EMax))
PENULTIMATE_DOUBLE == Fin(TwoTop - 2 * Pow2(EMax))
TWO_1023 == Fin(Pow2(Prec + EMax - 1))
MAX_ULP == FSub(MAX_DOUBLE, PENULTIMATE_DOUBLE)

\* ---------------------------------------------------------- sequences
\* partials[k] = v with a 0-based k, as a JavaScript array takes it: an index
\* inside the array overwrites, the index one past the end extends the array,
\* and a negative key is a property of the object, no element of the array
SetAt(ps, k, v) ==
  IF k >= 0 /\ k < Len(ps) THEN [ps EXCEPT ![k + 1] = v]
  ELSE IF k = Len(ps) THEN Append(ps, v)
  ELSE ps

\* -------------------------------------------------------------- twosum
\* lo computed from y where the code reads x
twosumTypo(a, b) ==
  [hi |-> FAdd(a, b), lo |-> FSub(b, FSub(FAdd(a, b), b))]

\* the rounding error dropped: plain floating point addition
twosumNoError(a, b) == [hi |-> FAdd(a, b), lo |-> Zero]

\* hi = x + y; lo = y - (hi - x)
twosum(a, b) ==
  [hi |-> FAdd(a, b), lo |-> FSub(b, FSub(FAdd(a, b), a))]

\* ------------------------------------------------- the main loop's body
\* x and y after "if ($abs(x) < $abs(y)) { swap }"
Larger(a, b) == IF FLt(abs(a), abs(b)) THEN b ELSE a
Smaller(a, b) == IF FLt(abs(a), abs(b)) THEN a ELSE b

\* var sign = hi === INF ? 1 : -1
Sign(h) == IF FEq(h, INF) THEN 1 ELSE -1

\* 2**1023 subtracted once
RescaleOnce(px, sign) == FSub(px, FMulInt(sign, TWO_1023))

\* x = (x - (sign * TWO_1023)) - (sign * TWO_1023)
Rescale(px, sign) ==
  FSub(FSub(px, FMulInt(sign, TWO_1023)), FMulInt(sign, TWO_1023))

\* what one pass of the for loop hands on: hi, lo, the overflow counter and
\* the operands of its twosum calls
Pass(s, ov, cs) == [hi |-> s.hi, lo |-> s.lo, overflow |-> ov, calls |-> cs]

\* the second twosum of the overflow branch, on the swapped operands x3, y3
ForRetrySum(x3, y3, ov, c1) == Pass(twosum(x3, y3), ov, <<c1, <<x3, y3>> >>)

\* the overflow branch after x has been rescaled to x2: swap again
ForRetry(x2, y1, ov, c1) ==
  ForRetrySum(Larger(x2, y1), Smaller(x2, y1), ov, c1)

\* "if ($abs(hi) === INF)" on the result s1 of twosum(x1, y1)
ForOverflow(x1, y1, ov, s1) ==
  IF FEq(abs(s1.hi), INF)
    THEN ForRetry(Rescale(x1, Sign(s1.hi)), y1, ov + Sign(s1.hi), <<x1, y1>>)
    ELSE Pass(s1, ov, << <<x1, y1>> >>)

\* twosum on the swapped operands x1, y1
ForTwoSum(x1, y1, ov) == ForOverflow(x1, y1, ov, twosum(x1, y1))

\* one pass of the for loop over the partial py = partials[j], up to the
\* store of lo: the swap, twosum, and the overflow branch
ForBody(px, py, ov) == ForTwoSum(Larger(px, py), Smaller(px, py), ov)

\* lo stored whether or not it is zero
StoreLoAlways(ps, used, l) ==
  [partials |-> SetAt(ps, used, l), used |-> used + 1]

\* if (lo !== 0) { partials[actuallyUsedPartials] = lo; actuallyUsedPartials += 1 }
StoreLo(ps, used, l) ==
  IF FNe(l, Zero)
    THEN [partials |-> SetAt(ps, used, l), used |-> used + 1]
    ELSE [partials |-> ps, used |-> used]

\* x appended only when it is positive
AppendXPositive(ps, used, px) ==
  IF FGt(px, Zero) THEN Append(SubSeq(ps, 1, used), px) ELSE SubSeq(ps, 1, used)

\* partials.length = actuallyUsedPartials; if (x !== 0) partials[partials.length] = x
AppendX(ps, used, px) ==
  IF FNe(px, Zero) THEN Append(SubSeq(ps, 1, used), px) ELSE SubSeq(ps, 1, used)

\* the for loop from position jj on, and the truncation and append after it
RECURSIVE ForLoop(_, _, _, _, _)

\* the loop goes on after the store st of the pass b
ForNext(st, jj, b) == ForLoop(st.partials, jj + 1, st.used, b.hi, b.overflow)

\* the store of lo after the pass b
ForStore(ps, jj, used, b) == ForNext(StoreLo(ps, used, b.lo), jj, b)

ForLoop(ps, jj, used, px, ov) ==
  IF jj < Len(ps)
    THEN ForStore(ps, jj, used, ForBody(px, ps[jj + 1], ov))
    ELSE [partials |-> AppendX(ps, used, px), overflow |-> ov]

\* one iteration of the main loop: the value v folded into the accumulator
FoldIn(ps, ov, v) == ForLoop(ps, 0, 0, v, ov)

\* the main loop over a whole array
RECURSIVE MainLoop(_, _, _)

\* the main loop goes on from the accumulator a
MainRest(arr, a) == MainLoop(arr, a.partials, a.overflow)

MainLoop(arr, ps, ov) ==
  IF arr = << >>
    THEN [partials |-> ps, overflow |-> ov]
    ELSE MainRest(Tail(arr), FoldIn(ps, ov, Head(arr)))

\* -------------------------------------------------------- finalization
\* the running value starts at -0, the identity of floating point addition
InitialHiNegZero == NegZero

\* hi = 0
InitialHi == Zero

\* the rounding to the maximum value forgotten: every sum whose double is
\* infinite is an infinity
MaxEdgeCaseNone(h, l, ps, nn) == IF FGt(h, Zero) THEN INF ELSE NegINF

\* the value returned when 2 * hi is infinite: MAX_DOUBLE when the sum is
\* half an ULP below 2**1024 and the next partial pulls it further down
MaxEdgeCase(h, l, ps, nn) ==
  IF FGt(h, Zero)
    THEN IF /\ FEq(h, TWO_1023)
            /\ FEq(l, FNeg(FHalf(MAX_ULP)))
            /\ nn >= 0
            /\ FLt(ps[nn + 1], Zero)
           THEN MAX_DOUBLE
           ELSE INF
    ELSE IF /\ FEq(h, FNeg(TWO_1023))
            /\ FEq(l, FHalf(MAX_ULP))
            /\ nn >= 0
            /\ FGt(ps[nn + 1], Zero)
           THEN FNeg(MAX_DOUBLE)
           ELSE NegINF

\* what the finalization has reached before the collapse loop: ret says
\* that the function has returned value
Returned(v, h, l, nn, ps, cs) ==
  [ret |-> TRUE, value |-> v, hi |-> h, lo |-> l, n |-> nn, partials |-> ps,
   calls |-> cs]
Running(h, l, nn, ps, cs) ==
  [ret |-> FALSE, value |-> Zero, hi |-> h, lo |-> l, n |-> nn,
   partials |-> ps, calls |-> cs]

\* from "if ($abs(2 * hi) === INF)" to "hi *= 2", with lo already doubled
FinalEdge(ps, n1, h, l2, cs) ==
  IF FEq(abs(FMulInt(2, h)), INF)
    THEN Returned(MaxEdgeCase(h, l2, ps, n1), h, l2, n1, ps, cs)
    ELSE IF FNe(l2, Zero)
      THEN Running(FMulInt(2, h), Zero, n1 + 1, SetAt(ps, n1 + 1, l2), cs)
      ELSE Running(FMulInt(2, h), l2, n1, ps, cs)

\* s = twosum(overflow * TWO_1023, next / 2); hi = s.hi; lo = s.lo; lo *= 2
FinalTwoSum(ps, n1, ax, ay) ==
  FinalEdge(ps, n1, twosum(ax, ay).hi, FMulInt(2, twosum(ax, ay).lo),
            << <<ax, ay>> >>)

\* the overflow branch once next is read and n decremented
FinalOverflow(ps, ov, next, n1) ==
  IF \/ ov > 1 \/ ov < -1
     \/ (ov > 0 /\ FGt(next, Zero))
     \/ (ov < 0 /\ FLt(next, Zero))
    THEN Returned(IF ov > 0 THEN INF ELSE NegINF, InitialHi, Zero, n1, ps, << >>)
    ELSE FinalTwoSum(ps, n1, FMulInt(ov, TWO_1023), FHalf(next))

\* var next = n >= 0 ? partials[n] : 0
LastOrZero(ps) == IF Len(ps) - 1 >= 0 THEN ps[Len(ps)] ELSE Zero

\* from "var n = partials.length - 1" to the head of the collapse loop
FinalHead(ps, ov) ==
  IF ov = 0
    THEN Running(InitialHi, Zero, Len(ps) - 1, ps, << >>)
    ELSE FinalOverflow(ps, ov, LastOrZero(ps), Len(ps) - 2)

\* the collapse loop from position nn on
RECURSIVE Collapse(_, _, _, _)

\* "if (lo !== 0) break" on the result s of twosum(hi, partials[nn])
CollapseOn(ps, nn, s) ==
  IF FNe(s.lo, Zero)
    THEN [hi |-> s.hi, lo |-> s.lo, n |-> nn - 1]
    ELSE Collapse(ps, nn - 1, s.hi, s.lo)

Collapse(ps, nn, h, l) ==
  IF nn >= 0
    THEN CollapseOn(ps, nn, twosum(h, ps[nn + 1]))
    ELSE [hi |-> h, lo |-> l, n |-> nn]

\* the half-way case left as the collapse loop rounded it
HandleRoundingNone(ps, nn, h, l) == h

\* var y2 = lo * 2.0; var x2 = hi + y2; var yr = x2 - hi; if (y2 === yr) hi = x2
RoundUp(h, y2) == IF FEq(y2, FSub(FAdd(h, y2), h)) THEN FAdd(h, y2) ELSE h

\* "handle rounding": the value returned after the collapse loop
HandleRounding(ps, nn, h, l) ==
  IF /\ nn >= 0
     /\ \/ (FLt(l, Zero) /\ FLt(ps[nn + 1], Zero))
        \/ (FGt(l, Zero) /\ FGt(ps[nn + 1], Zero))
    THEN RoundUp(h, FMulInt(2, l))
    ELSE h

\* the collapse loop's result c handed to the rounding
FinalRound(ps, c) == HandleRounding(ps, c.n, c.hi, c.lo)

\* the collapse loop and the rounding after the head f
FinalCollapse(f) ==
  IF f.ret
    THEN f.value
    ELSE FinalRound(f.partials, Collapse(f.partials, f.n, f.hi, f.lo))

\* everything after the main loop
Finalization(ps, ov) == FinalCollapse(FinalHead(ps, ov))

\* the finalization of the accumulator a
FinalizeAcc(a) == Finalization(a.partials, a.overflow)

\* the function as a whole
sumPrecise(arr) == FinalizeAcc(MainLoop(arr, << >>, 0))

\* ------------------------------------------------------------- the state
VARIABLES
  array,                 \* the argument
  index,                 \* position of the last element read, from -1
  partials,              \* the expansion
  overflow,              \* the count of 2**1024 held outside the partials
  x,                     \* the running value of the iteration
  j,                     \* position in the for loop
  actuallyUsedPartials,  \* partials kept so far by the for loop
  hi, lo,                \* the last twosum's result
  n,                     \* position of the next partial to collapse
  pc,                    \* "main", "for", "collapse", "round", "done"
  result,                \* the value returned, once pc = "done"
  total,                 \* history: the exact sum of the elements folded
  calls                  \* history: the <<x, y>> of the twosum calls of the last step

vars == <<array, index, partials, overflow, x, j, actuallyUsedPartials,
          hi, lo, n, pc, result, total, calls>>

\* the locals before the main loop; x, j, hi, lo and n are not read before
\* they are assigned, and hold a fixed value until then
InitLocals ==
  /\ index = -1
  /\ partials = << >>
  /\ overflow = 0
  /\ x = Zero
  /\ j = 0
  /\ actuallyUsedPartials = 0
  /\ hi = Zero
  /\ lo = Zero
  /\ n = -1
  /\ pc = "main"
  /\ result = Zero
  /\ total = 0
  /\ calls = << >>

\* the argument is any array of at most MaxLen valid numbers
Init ==
  /\ \E k \in 0..MaxLen : array \in [1..k -> ValidDoubles]
  /\ InitLocals

\* while ((index + 1) < array.length) { var x = +array[++index]; ... j = 0
MainNext ==
  /\ pc = "main"
  /\ index + 1 < Len(array)
  /\ index' = index + 1
  /\ x' = array[index + 2]
  /\ actuallyUsedPartials' = 0
  /\ j' = 0
  /\ total' = total + Val(array[index + 2])
  /\ calls' = << >>
  /\ pc' = "for"
  /\ UNCHANGED <<array, partials, overflow, hi, lo, n, result>>

\* one pass of the for loop
ForIter ==
  /\ pc = "for"
  /\ j < Len(partials)
  /\ \E b \in {ForBody(x, partials[j + 1], overflow)} :
       /\ hi' = b.hi
       /\ lo' = b.lo
       /\ overflow' = b.overflow
       /\ calls' = b.calls
       /\ partials' = StoreLo(partials, actuallyUsedPartials, b.lo).partials
       /\ actuallyUsedPartials' = StoreLo(partials, actuallyUsedPartials, b.lo).used
       /\ x' = b.hi
  /\ j' = j + 1
  /\ UNCHANGED <<array, index, n, pc, result, total>>

\* the for loop ends: the partials are truncated and x is appended
ForExit ==
  /\ pc = "for"
  /\ j >= Len(partials)
  /\ partials' = AppendX(partials, actuallyUsedPartials, x)
  /\ calls' = << >>
  /\ pc' = "main"
  /\ UNCHANGED <<array, index, overflow, x, j, actuallyUsedPartials, hi, lo,
                 n, result, total>>

\* the main loop ends: the overflow counter is folded back in, or the
\* function returns an infinity or +-MAX_DOUBLE
FinalizeStart ==
  /\ pc = "main"
  /\ index + 1 >= Len(array)
  /\ \E f \in {FinalHead(partials, overflow)} :
       /\ hi' = f.hi
       /\ lo' = f.lo
       /\ n' = f.n
       /\ partials' = f.partials
       /\ calls' = f.calls
       /\ pc' = IF f.ret THEN "done" ELSE "collapse"
       /\ result' = IF f.ret THEN f.value ELSE result
  /\ UNCHANGED <<array, index, overflow, x, j, actuallyUsedPartials, total>>

\* one pass of the collapse loop
CollapseIter ==
  /\ pc = "collapse"
  /\ n >= 0
  /\ \E s \in {twosum(hi, partials[n + 1])} :
       /\ hi' = s.hi
       /\ lo' = s.lo
       /\ pc' = IF FNe(s.lo, Zero) THEN "round" ELSE "collapse"
  /\ calls' = << <<hi, partials[n + 1]>> >>
  /\ n' = n - 1
  /\ UNCHANGED <<array, index, partials, overflow, x, j,
                 actuallyUsedPartials, result, total>>

\* the collapse loop runs out of partials
CollapseExit ==
  /\ pc = "collapse"
  /\ n < 0
  /\ calls' = << >>
  /\ pc' = "round"
  /\ UNCHANGED <<array, index, partials, overflow, x, j,
                 actuallyUsedPartials, hi, lo, n, result, total>>

\* "handle rounding" and return hi
Return ==
  /\ pc = "round"
  /\ \E r \in {HandleRounding(partials, n, hi, lo)} :
       /\ hi' = r
       /\ result' = r
  /\ calls' = << >>
  /\ pc' = "done"
  /\ UNCHANGED <<array, index, partials, overflow, x, j,
                 actuallyUsedPartials, lo, n, total>>

Next ==
  \/ MainNext
  \/ ForIter
  \/ ForExit
  \/ FinalizeStart
  \/ CollapseIter
  \/ CollapseExit
  \/ Return

Spec == Init /\ [][Next]_vars

\* ------------------------------------------- the accumulator on its own
\* AccSpec follows the accumulator (partials, overflow) from one head of the
\* main loop to the next, for inputs of any length: the element folded is
\* drawn when it is read, the array and the position in it are not kept, and
\* neither are the locals of the iteration.  The overflow counter is
\* explored up to MaxOverflow in magnitude.
AccInit == array = << >> /\ InitLocals

\* one whole iteration of the main loop on the element v
AccFold ==
  /\ pc = "main"
  /\ \E v \in ValidDoubles :
       \E a \in {FoldIn(partials, overflow, v)} :
         /\ a.overflow <= MaxOverflow
         /\ a.overflow >= -MaxOverflow
         /\ partials' = a.partials
         /\ overflow' = a.overflow
         /\ total' = total + Val(v)
  /\ UNCHANGED <<array, index, x, j, actuallyUsedPartials, hi, lo, n, pc,
                 result, calls>>

\* the input ends here: everything after the main loop
AccReturn ==
  /\ pc = "main"
  /\ result' = Finalization(partials, overflow)
  /\ pc' = "done"
  /\ UNCHANGED <<array, index, partials, overflow, x, j,
                 actuallyUsedPartials, hi, lo, n, total, calls>>

AccNext == AccFold \/ AccReturn

AccSpec == AccInit /\ [][AccNext]_vars

\* ------------------------------------------------------------ the claims
\* the exact integer s rounded once: round_to_nearest_even(exact sum)
RoundExact(s) == IF s = 0 THEN Zero ELSE RoundTo(s < 0, 2 * Mag(s))

\* the exact sum of a sequence of finite numbers
RECURSIVE ExactSum(_)
ExactSum(ps) == IF ps = << >> THEN 0 ELSE Val(Head(ps)) + ExactSum(Tail(ps))

\* the exact sum t lies exactly half way between two neighbouring numbers
IsTie(t) ==
  2 * ((2 * Mag(t)) % (2 * Pow2(QuantumExp(2 * Mag(t)))))
    = 2 * Pow2(QuantumExp(2 * Mag(t)))

\* the midpoint between MAX_DOUBLE and 2**1024
Midpoint == TwoTop - Pow2(EMax - 1)

\* the permutations of 1..k
Perms(k) == {p \in [1..k -> 1..k] : \A a, b \in 1..k : p[a] = p[b] => a = b}

\* the array arr read in the order p
Permuted(arr, p) == [i \in 1..Len(arr) |-> arr[p[i]]]

\* C1: the value returned is the exact sum of the inputs rounded once to
\* nearest, ties to even (an infinity from the midpoint above MAX_DOUBLE on),
\* whatever the length of the input and however often the running sum left
\* the finite range
C1_CorrectlyRounded == pc = "done" => result = RoundExact(total)

\* C1 witness: a sum of at least two partials exactly half way between two
\* numbers has been returned as a finite number
C1_Witness ==
  /\ pc = "done"
  /\ Len(partials) >= 2
  /\ IsTie(total)
  /\ IsFin(result)

\* C2: from the midpoint between MAX_DOUBLE and 2**1024 on the result is the
\* infinity of the sum's sign; from MAX_DOUBLE up to the midpoint it is
\* MAX_DOUBLE with the sum's sign
C2_OverflowBoundary ==
  pc = "done" =>
    /\ total >= Midpoint => result = INF
    /\ total <= -Midpoint => result = NegINF
    /\ (Val(MAX_DOUBLE) <= total /\ total < Midpoint) => result = MAX_DOUBLE
    /\ (-Midpoint < total /\ total <= -Val(MAX_DOUBLE)) => result = FNeg(MAX_DOUBLE)

\* C2 witness: with the overflow counter at 1 the sum one unit below the
\* midpoint has been returned as MAX_DOUBLE
C2_Witness ==
  /\ pc = "done"
  /\ overflow = 1
  /\ total = Midpoint - 1
  /\ result = MAX_DOUBLE

\* C3: every ordering of the array gives the value returned
C3_OrderIndependent ==
  pc = "done" =>
    \A p \in Perms(Len(array)) : sumPrecise(Permuted(array, p)) = result

\* C3 witness: an array of three has been summed of which another ordering
\* ends the main loop with another overflow counter
C3_Witness ==
  /\ pc = "done"
  /\ Len(array) = 3
  /\ \E p \in Perms(3) :
       MainLoop(Permuted(array, p), << >>, 0).overflow # overflow

\* C4: the empty array gives +0, the main loop is not entered, no partial is
\* stored and the overflow counter is 0
C4_Empty ==
  (pc = "done" /\ array = << >>) =>
    /\ result = Zero
    /\ index = -1
    /\ partials = << >>
    /\ overflow = 0

\* C4 witness: the function has returned on the empty array
C4_Witness == pc = "done" /\ array = << >>

\* C5: an array of one valid number gives that number
C5_Single == (pc = "done" /\ Len(array) = 1) => result = array[1]

\* C5 witness: the function has returned on the array of -MAX_DOUBLE alone
C5_Witness ==
  /\ pc = "done"
  /\ Len(array) = 1
  /\ array[1] = FNeg(MAX_DOUBLE)

\* sumPrecise([0, -0]): the pair x, -x of x = 0, outside the valid inputs
C6_ZeroPair == sumPrecise(<<Zero, NegZero>>) = Zero

\* C6: the array [x, -x] gives +0, with no partial stored and the overflow
\* counter at 0
C6_Cancel ==
  /\ C6_ZeroPair
  /\ (pc = "done" /\ Len(array) = 2 /\ array[2] = FNeg(array[1])) =>
       /\ result = Zero
       /\ partials = << >>
       /\ overflow = 0

\* C6 witness: the function has returned on [MAX_DOUBLE, -MAX_DOUBLE]
C6_Witness ==
  /\ pc = "done"
  /\ array = <<MAX_DOUBLE, FNeg(MAX_DOUBLE)>>

\* C7: at every head of the main loop the partials are finite and their exact
\* sum plus overflow * 2**1024 is the exact sum of the inputs folded so far
C7_ExactSum ==
  pc = "main" =>
    /\ \A i \in 1..Len(partials) : IsFin(partials[i])
    /\ ExactSum(partials) + overflow * TwoTop = total

\* C7 witness: a head of the main loop after the overflow branch was taken,
\* with partials stored
C7_Witness == pc = "main" /\ overflow # 0 /\ Len(partials) >= 2

\* C8: every twosum call of the last step had a first operand at least as
\* large in magnitude as the second
C8_TwoSumPrecondition ==
  \A i \in 1..Len(calls) : ~FLt(abs(calls[i][1]), abs(calls[i][2]))

\* C8, the exception located: the precondition fails only at the first pass of
\* the collapse loop when the overflow counter is 0, where hi is still 0
C8_OnlyFirstCollapse ==
  ~C8_TwoSumPrecondition =>
    /\ pc \in {"collapse", "round"}
    /\ Len(calls) = 1
    /\ calls[1][1] = Zero
    /\ overflow = 0

\* the partials in use: all of them in the main loop, those up to n once the
\* finalization has set n
LiveRange ==
  IF pc \in {"collapse", "round", "done"} THEN 1..(n + 1) ELSE 1..Len(partials)

\* C9: at every head of the main loop and throughout the finalization no
\* partial in use is zero
C9_NoZeroPartial ==
  pc # "for" => \A i \in LiveRange : FNe(partials[i], Zero)

\* C9 witness: the finalization has pushed its error term back onto the list
C9_Witness ==
  /\ pc = "collapse"
  /\ overflow # 0
  /\ n >= 0
  /\ n = Len(partials) - 1

\* C10: one iteration of the main loop adds at most one partial, and there are
\* never more partials than the format has bit positions, however many
\* inputs are folded
C10_Bounded ==
  [][/\ Len(partials') <= Len(partials) + 1
     /\ Len(partials') <= Prec + EMax]_vars

\* C10 witness: more inputs than the format has bit positions have been
\* folded (their sum exceeds that many times MAX_DOUBLE)
C10_Witness ==
  /\ total > (Prec + EMax) * Val(MAX_DOUBLE)
  /\ Len(partials) >= 2

====
